---------------------------- MODULE Spec2Model ----------------------------
(***************************************************************************)
(* HoopsFactoryDownloader (src/main.py): the run loop download_videos with *)
(* its retry policy and teardown, the per-video fallback chain of          *)
(* download_video, and the pure helpers get_previous_wednesday, the        *)
(* time-window filter of get_video_links and the filename sanitization.    *)
(*                                                                         *)
(* Strings are sequences of one-character strings.  Calls into Playwright, *)
(* requests and the file system are inputs of the actions: each may        *)
(* succeed or raise.                                                       *)
(***************************************************************************)
EXTENDS Integers, Sequences, FiniteSets, TLC

VARIABLES
    \* ---- HoopsFactoryDownloader fields
    headless,          \* self.headless
    playwright,        \* self.playwright: "unset" | "running" | "stopped"
    browser,           \* self.browser:    "none" | "open" | "closed"
    context,           \* self.context:    "none" | "open" | "closed"
    page,              \* self.page:       "none" | "open" | "closed"
    \* ---- download_videos locals and position
    pc,                \* position in download_videos
    retry_count,
    pending,           \* how the try body completed: "none" | "continue" | "true" | "false"
    result,            \* "running" | "true" | "false" | "raised"
    video_data_list,
    date_str,
    idx,               \* position of the for loop in video_data_list (1-based)
    successful_downloads,
    \* ---- environment and history
    files,             \* file system below download_dir: path -> "partial" | "complete"
    live,              \* resources really open: [playwright, browser, context, page -> Nat]
    started_headless,  \* self.headless at construction
    modes,             \* self.headless at each call of setup_browser
    logins,            \* the result of each call of login
    listings,          \* Len of the result of each call of get_video_links
    closes,            \* the calls of close_browser so far
    close_log,         \* the close operations the last close_browser invoked, in order
    outcomes,          \* what each call of download_video did
    failure,           \* why the current attempt failed, "none" when it has not
    \* ---- unit runs of the pure helpers
    upc,               \* position of the unit run
    today,             \* datetime.now() as a proleptic Gregorian ordinal
    date_key,          \* get_previous_wednesday()
    cards,             \* the .card elements of the page
    filtered,          \* get_video_links()
    title,             \* video_data['title']
    once,              \* the sanitized title
    twice              \* the sanitized title, sanitized again

runVars  == <<headless, playwright, browser, context, page, pc, retry_count,
              pending, result, video_data_list, date_str, idx,
              successful_downloads, files, live, started_headless, modes,
              logins, listings, closes, close_log, outcomes, failure>>
unitVars == <<upc, today, date_key, cards, filtered, title, once, twice>>
vars     == <<runVars, unitVars>>

---------------------------------------------------------------------------
(* Bounds of the model. *)

MaxCards    == 2    \* cards on the page in a run
MaxScraped  == 2    \* cards on the page in a unit run of get_video_links
MaxTitleLen == 3    \* characters of a title in a unit run of the sanitization
DayBase     == 738870   \* first "today" of the unit runs: 2023-12-16
DaySpan     == 90       \* days after DayBase, through the leap day of 2024

---------------------------------------------------------------------------
(* Characters. *)

Digits     == {"0", "1", "2", "3", "4", "5", "6", "7", "8", "9"}
AsciiWord  == Digits \cup {"a", "h", "x", "Z", "_"}
\* \w of a str pattern is Unicode-aware: it matches non-ASCII letters too
WordChars  == AsciiWord \cup {"é"}
\* \s, and what str.strip() strips
SpaceChars == {" ", "\t"}

IsDigit(c) == c \in Digits
IsWord(c)  == c \in WordChars
IsSpace(c) == c \in SpaceChars

DigitVal(c) ==
    CASE c = "0" -> 0 [] c = "1" -> 1 [] c = "2" -> 2 [] c = "3" -> 3
      [] c = "4" -> 4 [] c = "5" -> 5 [] c = "6" -> 6 [] c = "7" -> 7
      [] c = "8" -> 8 [] c = "9" -> 9

DigitChar(n) ==
    CASE n = 0 -> "0" [] n = 1 -> "1" [] n = 2 -> "2" [] n = 3 -> "3"
      [] n = 4 -> "4" [] n = 5 -> "5" [] n = 6 -> "6" [] n = 7 -> "7"
      [] n = 8 -> "8" [] n = 9 -> "9"

\* int(s) of a string of decimal digits
RECURSIVE IntOf(_)
IntOf(s) ==
    IF s = <<>> THEN 0
    ELSE 10 * IntOf(SubSeq(s, 1, Len(s) - 1)) + DigitVal(s[Len(s)])

\* n as exactly w decimal digits, zero padded (%Y, %m, %d of strftime)
RECURSIVE Pad(_, _)
Pad(n, w) ==
    IF w = 0 THEN <<>> ELSE Append(Pad(n \div 10, w - 1), DigitChar(n % 10))

---------------------------------------------------------------------------
(* get_previous_wednesday, src/main.py 117-134, with the calendar          *)
(* arithmetic of datetime it relies on.                                    *)

IsLeap(y) == y % 4 = 0 /\ (y % 100 # 0 \/ y % 400 = 0)

DaysInMonth(y, m) ==
    IF m = 2 THEN (IF IsLeap(y) THEN 29 ELSE 28)
    ELSE IF m \in {4, 6, 9, 11} THEN 30 ELSE 31

RECURSIVE DaysBeforeMonth(_, _)
DaysBeforeMonth(y, m) ==
    IF m = 1 THEN 0 ELSE DaysBeforeMonth(y, m - 1) + DaysInMonth(y, m - 1)

DaysBeforeYear(y) ==
    (y - 1) * 365 + (y - 1) \div 4 - (y - 1) \div 100 + (y - 1) \div 400

\* date.toordinal(): 0001-01-01 is day 1
Ymd2Ord(y, m, d) == DaysBeforeYear(y) + DaysBeforeMonth(y, m) + d

\* date.fromordinal(n) as <<year, month, day>>
RECURSIVE MonthOf(_, _, _)
MonthOf(y, m, n) ==
    IF n <= DaysInMonth(y, m) THEN <<y, m, n>>
    ELSE MonthOf(y, m + 1, n - DaysInMonth(y, m))

Ord2Ymd(n) ==
    LET n0   == n - 1
        n400 == n0 \div 146097
        r400 == n0 % 146097
        n100 == r400 \div 36524
        r100 == r400 % 36524
        n4   == r100 \div 1461
        r4   == r100 % 1461
        n1   == r4 \div 365
        r1   == r4 % 365
        year == n400 * 400 + 1 + n100 * 100 + n4 * 4 + n1
    IN  IF n1 = 4 \/ n100 = 4 THEN <<year - 1, 12, 31>>
        ELSE MonthOf(year, 1, r1 + 1)

\* datetime.weekday(): Monday is 0
Weekday(n) == (n + 6) % 7

\* strftime("%Y%m%d")
Strftime(n) ==
    LET ymd == Ord2Ymd(n) IN Pad(ymd[1], 4) \o Pad(ymd[2], 2) \o Pad(ymd[3], 2)

\* mutant: the "today is Wednesday" branch dropped
get_previous_wednesday_nobranch(now) ==
    Strftime(now - ((Weekday(now) - 2) % 7))

get_previous_wednesday(now) ==
    LET days_since_wednesday == (Weekday(now) - 2) % 7
        prev_wednesday ==
            IF days_since_wednesday = 0
            THEN now - 7
            ELSE now - days_since_wednesday
    IN  Strftime(prev_wednesday)

---------------------------------------------------------------------------
(* The time-window filter of get_video_links, src/main.py 341-368.         *)

\* re.match of (\d{1,2})h(\d{2}) at position i of t: \d{1,2} is greedy, two
\* digits are tried first
MatchAt(t, i) ==
    IF /\ i + 4 <= Len(t)
       /\ IsDigit(t[i]) /\ IsDigit(t[i + 1]) /\ t[i + 2] = "h"
       /\ IsDigit(t[i + 3]) /\ IsDigit(t[i + 4])
    THEN [ok |-> TRUE, g1 |-> SubSeq(t, i, i + 1), g2 |-> SubSeq(t, i + 3, i + 4)]
    ELSE IF /\ i + 3 <= Len(t)
            /\ IsDigit(t[i]) /\ t[i + 1] = "h"
            /\ IsDigit(t[i + 2]) /\ IsDigit(t[i + 3])
    THEN [ok |-> TRUE, g1 |-> SubSeq(t, i, i), g2 |-> SubSeq(t, i + 2, i + 3)]
    ELSE [ok |-> FALSE, g1 |-> <<>>, g2 |-> <<>>]

\* re.search: the leftmost position that matches
RECURSIVE SearchFrom(_, _)
SearchFrom(t, i) ==
    IF i > Len(t) THEN [ok |-> FALSE, g1 |-> <<>>, g2 |-> <<>>]
    ELSE IF MatchAt(t, i).ok THEN MatchAt(t, i)
    ELSE SearchFrom(t, i + 1)

ReSearch(t) == SearchFrom(t, 1)

\* mutant: the upper end of the window exclusive
KeepByTime_exclusive(video) ==
    LET time_match == ReSearch(video.title) IN
    IF time_match.ok
    THEN LET time_value == IntOf(time_match.g1) * 100 + IntOf(time_match.g2)
         IN  1200 <= time_value /\ time_value < 1330
    ELSE TRUE

\* the body of the for loop: whether the video is appended
KeepByTime(video) ==
    LET time_match == ReSearch(video.title) IN
    IF time_match.ok
    THEN LET hour       == IntOf(time_match.g1)
             minute     == IntOf(time_match.g2)
             time_value == hour * 100 + minute
         IN  1200 <= time_value /\ time_value <= 1330
    ELSE TRUE

RECURSIVE TimeFilter(_)
TimeFilter(video_data) ==
    IF video_data = <<>> THEN <<>>
    ELSE LET rest == TimeFilter(Tail(video_data)) IN
         IF KeepByTime(Head(video_data))
         THEN <<Head(video_data)>> \o rest
         ELSE rest

\* The page script, src/main.py 306-339: one record per card that has a
\* download link, a title and a direct URL or a video src; index is the
\* card's position among all cards (0-based).
RECURSIVE ExtractFrom(_, _)
ExtractFrom(cs, index) ==
    IF cs = <<>> THEN <<>>
    ELSE LET card == Head(cs)
             rest == ExtractFrom(Tail(cs), index + 1)
         IN  IF card.hasLink /\ card.hasTitle /\ (card.directUrl \/ card.videoSrc)
             THEN <<[title     |-> card.title,
                     directUrl |-> card.directUrl,
                     videoSrc  |-> card.videoSrc,
                     index     |-> index]>> \o rest
             ELSE rest

Extract(cs) == ExtractFrom(cs, 0)

\* get_video_links: raised says that waiting for the cards or the page
\* script raised (370-372); scraped are the cards of the page
get_video_links(scraped, raised) ==
    IF raised THEN <<>> ELSE TimeFilter(Extract(scraped))

---------------------------------------------------------------------------
(* The filename sanitization of download_video, src/main.py 386-388.       *)

\* re.sub(r'[^\w\s-]', '', s)
RECURSIVE StripOthers(_)
StripOthers(s) ==
    IF s = <<>> THEN <<>>
    ELSE IF IsWord(Head(s)) \/ IsSpace(Head(s)) \/ Head(s) = "-"
         THEN <<Head(s)>> \o StripOthers(Tail(s))
         ELSE StripOthers(Tail(s))

\* str.strip()
RECURSIVE LStrip(_)
LStrip(s) == IF s # <<>> /\ IsSpace(Head(s)) THEN LStrip(Tail(s)) ELSE s

RECURSIVE RStrip(_)
RStrip(s) ==
    IF s # <<>> /\ IsSpace(s[Len(s)]) THEN RStrip(SubSeq(s, 1, Len(s) - 1)) ELSE s

Strip(s) == RStrip(LStrip(s))

\* re.sub(r'[-\s]+', '_', s): inRun says the previous character was replaced
RECURSIVE CollapseFrom(_, _)
CollapseFrom(s, inRun) ==
    IF s = <<>> THEN <<>>
    ELSE IF Head(s) = "-" \/ IsSpace(Head(s))
         THEN (IF inRun THEN <<>> ELSE <<"_">>) \o CollapseFrom(Tail(s), TRUE)
         ELSE <<Head(s)>> \o CollapseFrom(Tail(s), FALSE)

Collapse(s) == CollapseFrom(s, FALSE)

\* mutant: the strip() call dropped and whitespace runs only collapsed
safe_title_of_nohyphen(t) ==
    LET RECURSIVE C(_, _)
        C(s, inRun) ==
            IF s = <<>> THEN <<>>
            ELSE IF IsSpace(Head(s))
                 THEN (IF inRun THEN <<>> ELSE <<"_">>) \o C(Tail(s), TRUE)
                 ELSE <<Head(s)>> \o C(Tail(s), FALSE)
    IN  C(Strip(StripOthers(t)), FALSE)

safe_title_of(t) == Collapse(Strip(StripOthers(t)))

filename_of(t) == safe_title_of(t) \o <<".", "m", "p", "4">>

---------------------------------------------------------------------------
(* download_video, src/main.py 374-485.  The inputs say how each external  *)
(* call ends:                                                              *)
(*   prep:      "ok" | "raise"         date_folder.mkdir                   *)
(*   direct:    "ok" | "http_raise" | "stream_raise"                       *)
(*              requests.get / raise_for_status raised, or open() did;     *)
(*              or iter_content raised after open() created the file       *)
(*   viaBrowser:"ok" | "raise"         expect_download / goto / save_as    *)
(*   click:     "clicked" | "absent" | "raise"   the page script's result  *)

PrepInputs    == {"ok", "raise"}
DirectInputs  == {"ok", "http_raise", "stream_raise"}
BrowserInputs == {"ok", "raise"}
ClickInputs   == {"clicked", "absent", "raise"}

\* download_path below download_dir
download_path_of(video, date) == <<date, filename_of(video.title)>>

WriteFile(fs, path, st) ==
    [p \in (DOMAIN fs) \cup {path} |-> IF p = path THEN st ELSE fs[p]]

FileAt(fs, path) == IF path \in DOMAIN fs THEN fs[path] ELSE "absent"

\* one entry of the log of strategies attempted: which, and whether it
\* succeeded
Tried(strategy, ok) == [strategy |-> strategy, ok |-> ok]

\* mutant: a failed direct fetch ends the call, the later strategies are
\* reached only without a direct URL
download_video_nofallback(video, date, fs, prep, direct, viaBrowser, click) ==
    LET download_path == download_path_of(video, date)
        video_url     == video.directUrl \/ video.videoSrc
        t1  == <<Tried("direct", direct = "ok")>>
        fs1 == IF direct = "ok"
               THEN WriteFile(fs, download_path, "complete")
               ELSE IF direct = "stream_raise"
               THEN WriteFile(fs, download_path, "partial")
               ELSE fs
    IN  IF prep = "raise"
        THEN [ret |-> FALSE, prepared |-> FALSE, tried |-> <<>>, files |-> fs]
        ELSE IF video_url
        THEN [ret |-> direct = "ok", prepared |-> TRUE, tried |-> t1, files |-> fs1]
        ELSE [ret |-> viaBrowser = "ok", prepared |-> TRUE,
              tried |-> <<Tried("browser", viaBrowser = "ok")>>,
              files |-> IF viaBrowser = "ok"
                        THEN WriteFile(fs, download_path, "complete") ELSE fs]

\* mutant: Method 3 dropped, a failed browser download ends the call
download_video_noclick(video, date, fs, prep, direct, viaBrowser, click) ==
    LET download_path == download_path_of(video, date)
        video_url     == video.directUrl \/ video.videoSrc
        t1  == IF video_url THEN <<Tried("direct", direct = "ok")>> ELSE <<>>
        fs1 == IF video_url /\ direct = "ok"
               THEN WriteFile(fs, download_path, "complete")
               ELSE IF video_url /\ direct = "stream_raise"
               THEN WriteFile(fs, download_path, "partial")
               ELSE fs
        t2  == t1 \o <<Tried("browser", viaBrowser = "ok")>>
        fs2 == IF viaBrowser = "ok"
               THEN WriteFile(fs1, download_path, "complete")
               ELSE fs1
    IN  IF prep = "raise"
        THEN [ret |-> FALSE, prepared |-> FALSE, tried |-> <<>>, files |-> fs]
        ELSE IF video_url /\ direct = "ok"
        THEN [ret |-> TRUE, prepared |-> TRUE, tried |-> t1, files |-> fs1]
        ELSE [ret |-> viaBrowser = "ok", prepared |-> TRUE, tried |-> t2,
              files |-> fs2]

\* mutant: the browser strategy reports success without download.save_as
download_video_nosave(video, date, fs, prep, direct, viaBrowser, click) ==
    LET download_path == download_path_of(video, date)
        video_url     == video.directUrl \/ video.videoSrc
        t1  == IF video_url THEN <<Tried("direct", direct = "ok")>> ELSE <<>>
        fs1 == IF video_url /\ direct = "ok"
               THEN WriteFile(fs, download_path, "complete")
               ELSE IF video_url /\ direct = "stream_raise"
               THEN WriteFile(fs, download_path, "partial")
               ELSE fs
        t2  == t1 \o <<Tried("browser", viaBrowser = "ok")>>
        t3  == t2 \o <<Tried("click", click = "clicked")>>
    IN  IF prep = "raise"
        THEN [ret |-> FALSE, prepared |-> FALSE, tried |-> <<>>, files |-> fs]
        ELSE IF video_url /\ direct = "ok"
        THEN [ret |-> TRUE, prepared |-> TRUE, tried |-> t1, files |-> fs1]
        ELSE IF viaBrowser = "ok"
        THEN [ret |-> TRUE, prepared |-> TRUE, tried |-> t2, files |-> fs1]
        ELSE IF click = "clicked"
        THEN [ret |-> TRUE, prepared |-> TRUE, tried |-> t3, files |-> fs1]
        ELSE [ret |-> FALSE, prepared |-> TRUE, tried |-> t3, files |-> fs1]

\* ret: the value returned; prepared: the filename and the date folder were
\* made (385-397); tried: the strategies attempted, in order, each with its
\* success; files: the file system afterwards
download_video(video, date, fs, prep, direct, viaBrowser, click) ==
    LET download_path == download_path_of(video, date)
        \* 400: video_data.get('directUrl') or video_data.get('videoSrc')
        video_url     == video.directUrl \/ video.videoSrc
        \* Method 1, 402-423
        t1  == IF video_url THEN <<Tried("direct", direct = "ok")>> ELSE <<>>
        fs1 == IF video_url /\ direct = "ok"
               THEN WriteFile(fs, download_path, "complete")
               ELSE IF video_url /\ direct = "stream_raise"
               THEN WriteFile(fs, download_path, "partial")
               ELSE fs
        \* Method 2, 426-448
        t2  == t1 \o <<Tried("browser", viaBrowser = "ok")>>
        fs2 == IF viaBrowser = "ok"
               THEN WriteFile(fs1, download_path, "complete")
               ELSE fs1
        \* Method 3, 451-479: a click is dispatched, no file is awaited
        t3  == t2 \o <<Tried("click", click = "clicked")>>
    IN  IF prep = "raise"
        THEN \* 483-485: the outer handler
             [ret |-> FALSE, prepared |-> FALSE, tried |-> <<>>, files |-> fs]
        ELSE IF video_url /\ direct = "ok"
        THEN [ret |-> TRUE, prepared |-> TRUE, tried |-> t1, files |-> fs1]
        ELSE IF viaBrowser = "ok"
        THEN [ret |-> TRUE, prepared |-> TRUE, tried |-> t2, files |-> fs2]
        ELSE IF click = "clicked"
        THEN [ret |-> TRUE, prepared |-> TRUE, tried |-> t3, files |-> fs2]
        ELSE \* 481
             [ret |-> FALSE, prepared |-> TRUE, tried |-> t3, files |-> fs2]

---------------------------------------------------------------------------
(* setup_browser and close_browser, src/main.py 53-77 and 106-115.         *)

max_retries == 2

Resources == <<"page", "context", "browser", "playwright">>

Fields == [playwright |-> playwright, browser |-> browser,
           context |-> context, page |-> page]

\* failAt: 0 when no call raises, else the call that raises: 1 start(),
\* 2 launch(), 3 new_context(), 4 new_page().  A field is assigned only
\* when its call returned.
setup_browser(f, lv, failAt) ==
    LET done == IF failAt = 0 THEN 4 ELSE failAt - 1
        Got(k, name) == IF done >= k THEN lv[name] + 1 ELSE lv[name]
    IN  [fields |-> [playwright |-> IF done >= 1 THEN "running" ELSE f.playwright,
                     browser    |-> IF done >= 2 THEN "open" ELSE f.browser,
                     context    |-> IF done >= 3 THEN "open" ELSE f.context,
                     page       |-> IF done >= 4 THEN "open" ELSE f.page],
         live   |-> [playwright |-> Got(1, "playwright"),
                     browser    |-> Got(2, "browser"),
                     context    |-> Got(3, "context"),
                     page       |-> Got(4, "page")],
         raised |-> failAt # 0]

IsSet(f, name) ==
    IF name = "playwright" THEN f.playwright # "unset" ELSE f[name] # "none"

IsOpen(f, name) == f[name] \in {"open", "running"}

Closed(name) == IF name = "playwright" THEN "stopped" ELSE "closed"

\* failAt: 0 when no close raises, else the position in Resources of the
\* close that raises when it is called.  log: the closes called, in order.
RECURSIVE CloseFrom(_, _, _, _, _)
CloseFrom(i, f, lv, log, failAt) ==
    IF i > Len(Resources)
    THEN [fields |-> f, live |-> lv, log |-> log, raised |-> FALSE]
    ELSE LET name == Resources[i] IN
         IF ~IsSet(f, name)
         THEN CloseFrom(i + 1, f, lv, log, failAt)
         ELSE IF failAt = i
         THEN [fields |-> f, live |-> lv, log |-> Append(log, name),
               raised |-> TRUE]
         ELSE CloseFrom(i + 1,
                        [f EXCEPT ![name] = Closed(name)],
                        [lv EXCEPT ![name] = IF IsOpen(f, name) THEN @ - 1 ELSE @],
                        Append(log, name), failAt)

close_browser(f, lv, failAt) == CloseFrom(1, f, lv, <<>>, failAt)

---------------------------------------------------------------------------
(* Inputs of a run. *)

T_12h00 == <<"1", "2", "h", "0", "0">>
T_14h00 == <<"1", "4", "h", "0", "0">>
T_plain == <<"x", " ", "é">>

Card(t, link, direct, src) ==
    [title |-> t, hasTitle |-> TRUE, hasLink |-> link,
     directUrl |-> direct, videoSrc |-> src]

\* the cards a page of a run is made of: inside the window with a direct
\* URL, outside the window, and no time in the title and only a video src
RunCards ==
    { Card(T_12h00, TRUE, TRUE, FALSE),
      Card(T_14h00, TRUE, TRUE, TRUE),
      Card(T_plain, TRUE, FALSE, TRUE) }

SeqsUpTo(S, n) == UNION { [1..k -> S] : k \in 0..n }

\* datetime.now() of a run: 2023-12-20, a Wednesday
RunDays == {738874}

UnitIdle ==
    /\ upc = "off" /\ today = 0 /\ date_key = <<>> /\ cards = <<>>
    /\ filtered = <<>> /\ title = <<>> /\ once = <<>> /\ twice = <<>>

---------------------------------------------------------------------------
(* download_videos, src/main.py 487-564. *)

Init ==
    /\ headless \in BOOLEAN
    /\ started_headless = headless
    /\ playwright = "unset" /\ browser = "none" /\ context = "none" /\ page = "none"
    /\ pc = "attempt"
    /\ retry_count = 0
    /\ pending = "none"
    /\ result = "running"
    /\ video_data_list = <<>>
    /\ date_str = <<>>
    /\ idx = 1
    /\ successful_downloads = 0
    /\ files = <<>>
    /\ live = [playwright |-> 0, browser |-> 0, context |-> 0, page |-> 0]
    /\ modes = <<>>
    /\ logins = <<>>
    /\ listings = <<>>
    /\ closes = 0
    /\ close_log = <<>>
    /\ outcomes = <<>>
    /\ failure = "none"
    /\ UnitIdle

SetFields(f) ==
    /\ playwright' = f.playwright
    /\ browser' = f.browser
    /\ context' = f.context
    /\ page' = f.page

\* 513-516, 525-528, 535-538: retry while retries remain, else return final
RetryOrReturn(final) ==
    IF retry_count < max_retries
    THEN retry_count' = retry_count + 1 /\ pending' = "continue"
    ELSE retry_count' = retry_count /\ pending' = final

\* mutant: the switch to a visible browser made on every retry
headless_for_attempt_anyretry(hl, retry) ==
    IF retry > 0 /\ hl THEN FALSE ELSE hl

\* 499-503: self.headless for the attempt: the final retry of a headless
\* run switches to a visible browser
headless_for_attempt(hl, retry) ==
    IF retry > 0 /\ hl /\ retry = max_retries THEN FALSE ELSE hl

\* 497-505: the loop test, the switch to a visible browser, setup_browser
Attempt ==
    /\ pc = "attempt"
    /\ retry_count <= max_retries
    /\ \E failAt \in 0..4 :
        LET hl == headless_for_attempt(headless, retry_count)
            s  == setup_browser(Fields, live, failAt)
        IN  /\ headless' = hl
            /\ modes' = Append(modes, hl)
            /\ SetFields(s.fields)
            /\ live' = s.live
            /\ pc' = IF s.raised THEN "except" ELSE "goto_login"
            /\ failure' = IF s.raised THEN "setup_browser" ELSE "none"
    /\ pending' = "none"
    /\ UNCHANGED <<retry_count, result, video_data_list, date_str, idx,
                   successful_downloads, files, started_headless, logins,
                   listings, closes, close_log, outcomes, unitVars>>

\* 507-510
GotoLogin ==
    /\ pc = "goto_login"
    /\ \E raises \in BOOLEAN :
        /\ pc' = IF raises THEN "except" ELSE "login"
        /\ failure' = IF raises THEN "goto_login" ELSE failure
    /\ UNCHANGED <<headless, playwright, browser, context, page, retry_count,
                   pending, result, video_data_list, date_str, idx,
                   successful_downloads, files, live, started_headless, modes,
                   logins, listings, closes, close_log, outcomes, unitVars>>

\* 512-516: login returns a boolean, it catches what its steps raise
Login ==
    /\ pc = "login"
    /\ \E ok \in BOOLEAN :
        /\ logins' = Append(logins, ok)
        /\ IF ok
           THEN /\ pc' = "goto_videos"
                /\ UNCHANGED <<retry_count, pending, failure>>
           ELSE /\ pc' = "finally"
                /\ failure' = "login"
                /\ RetryOrReturn("false")
    /\ UNCHANGED <<headless, playwright, browser, context, page, result,
                   video_data_list, date_str, idx, successful_downloads,
                   files, live, started_headless, modes, listings, closes,
                   close_log, outcomes, unitVars>>

\* 518-521
GotoVideos ==
    /\ pc = "goto_videos"
    /\ \E raises \in BOOLEAN :
        /\ pc' = IF raises THEN "except" ELSE "filters"
        /\ failure' = IF raises THEN "goto_videos" ELSE failure
    /\ UNCHANGED <<headless, playwright, browser, context, page, retry_count,
                   pending, result, video_data_list, date_str, idx,
                   successful_downloads, files, live, started_headless, modes,
                   logins, listings, closes, close_log, outcomes, unitVars>>

\* 523-528: select_filters returns a boolean, it catches what its steps raise
SelectFilters ==
    /\ pc = "filters"
    /\ \E ok \in BOOLEAN :
        IF ok
        THEN /\ pc' = "listing"
             /\ UNCHANGED <<retry_count, pending, failure>>
        ELSE /\ pc' = "finally"
             /\ failure' = "filters"
             /\ RetryOrReturn("false")
    /\ UNCHANGED <<headless, playwright, browser, context, page, result,
                   video_data_list, date_str, idx, successful_downloads,
                   files, live, started_headless, modes, logins, listings,
                   closes, close_log, outcomes, unitVars>>

\* 530-544: get_video_links, the empty case, date_str and the loop's start
Listing ==
    /\ pc = "listing"
    /\ \E scraped \in SeqsUpTo(RunCards, MaxCards), raised \in BOOLEAN,
          now \in RunDays :
        LET found == get_video_links(scraped, raised) IN
        /\ video_data_list' = found
        /\ listings' = Append(listings, Len(found))
        /\ IF found = <<>>
           THEN /\ pc' = "finally"
                /\ failure' = "empty"
                /\ RetryOrReturn("true")
                /\ UNCHANGED <<date_str, idx, successful_downloads>>
           ELSE /\ pc' = "download"
                /\ date_str' = get_previous_wednesday(now)
                /\ idx' = 1
                /\ successful_downloads' = 0
                /\ UNCHANGED <<retry_count, pending, failure>>
    /\ UNCHANGED <<headless, playwright, browser, context, page, result,
                   files, live, started_headless, modes, logins, closes,
                   close_log, outcomes, unitVars>>

\* 545-548: one iteration of the for loop
DownloadOne ==
    /\ pc = "download"
    /\ idx <= Len(video_data_list)
    /\ \E prep \in PrepInputs, direct \in DirectInputs,
          viaBrowser \in BrowserInputs, click \in ClickInputs :
        LET video_data == video_data_list[idx]
            r == download_video(video_data, date_str, files, prep, direct,
                                viaBrowser, click)
            path == download_path_of(video_data, date_str)
        IN  /\ successful_downloads' =
                   IF r.ret THEN successful_downloads + 1 ELSE successful_downloads
            /\ files' = r.files
            /\ outcomes' = Append(outcomes,
                   [video |-> video_data, path |-> path, ret |-> r.ret,
                    prepared |-> r.prepared, tried |-> r.tried,
                    file |-> FileAt(r.files, path)])
    /\ idx' = idx + 1
    /\ UNCHANGED <<headless, playwright, browser, context, page, pc,
                   retry_count, pending, result, video_data_list, date_str,
                   live, started_headless, modes, logins, listings, closes,
                   close_log, failure, unitVars>>

\* 550-553: the loop is over
DownloadsDone ==
    /\ pc = "download"
    /\ idx > Len(video_data_list)
    /\ pending' = "true"
    /\ pc' = "finally"
    /\ UNCHANGED <<headless, playwright, browser, context, page, retry_count,
                   result, video_data_list, date_str, idx,
                   successful_downloads, files, live, started_headless, modes,
                   logins, listings, closes, close_log, outcomes, failure,
                   unitVars>>

\* 555-562: the except clause
Except ==
    /\ pc = "except"
    /\ RetryOrReturn("false")
    /\ pc' = "finally"
    /\ UNCHANGED <<headless, playwright, browser, context, page, result,
                   video_data_list, date_str, idx, successful_downloads,
                   files, live, started_headless, modes, logins, listings,
                   closes, close_log, outcomes, failure, unitVars>>

\* 563-564: the finally clause.  What close_browser raises replaces the
\* pending continue or return and leaves download_videos.
Finally ==
    /\ pc = "finally"
    /\ \E failAt \in 0..4 :
        LET c == close_browser(Fields, live, failAt) IN
        /\ SetFields(c.fields)
        /\ live' = c.live
        /\ close_log' = c.log
        /\ IF c.raised
           THEN pc' = "done" /\ result' = "raised"
           ELSE IF pending = "continue"
           THEN pc' = "attempt" /\ result' = result
           ELSE pc' = "done" /\ result' = pending
    /\ closes' = closes + 1
    /\ UNCHANGED <<headless, retry_count, pending, video_data_list, date_str,
                   idx, successful_downloads, files, started_headless, modes,
                   logins, listings, outcomes, failure, unitVars>>

Next ==
    \/ Attempt
    \/ GotoLogin
    \/ Login
    \/ GotoVideos
    \/ SelectFilters
    \/ Listing
    \/ DownloadOne
    \/ DownloadsDone
    \/ Except
    \/ Finally

Spec == Init /\ [][Next]_vars

---------------------------------------------------------------------------
(* Unit runs of the pure helpers: each draws an input and applies the      *)
(* helper to it.                                                           *)

RunIdle ==
    /\ headless = FALSE /\ started_headless = FALSE
    /\ playwright = "unset" /\ browser = "none" /\ context = "none" /\ page = "none"
    /\ pc = "off" /\ retry_count = 0 /\ pending = "none" /\ result = "running"
    /\ video_data_list = <<>> /\ date_str = <<>> /\ idx = 1
    /\ successful_downloads = 0 /\ files = <<>>
    /\ live = [playwright |-> 0, browser |-> 0, context |-> 0, page |-> 0]
    /\ modes = <<>> /\ logins = <<>> /\ listings = <<>> /\ closes = 0
    /\ close_log = <<>> /\ outcomes = <<>> /\ failure = "none"

\* ---- get_previous_wednesday

Days == DayBase .. (DayBase + DaySpan)

InitDate ==
    /\ RunIdle
    /\ upc = "date" /\ today \in Days /\ date_key = <<>> /\ cards = <<>>
    /\ filtered = <<>> /\ title = <<>> /\ once = <<>> /\ twice = <<>>

PreviousWednesday ==
    /\ upc = "date"
    /\ date_key' = get_previous_wednesday(today)
    /\ upc' = "date_done"
    /\ UNCHANGED <<runVars, today, cards, filtered, title, once, twice>>

NextDate == PreviousWednesday

SpecDate == InitDate /\ [][NextDate]_vars

\* ---- get_video_links

T_11h59  == <<"1", "1", "h", "5", "9">>
T_12h45  == <<"1", "2", "h", "4", "5">>
T_13h30  == <<"1", "3", "h", "3", "0">>
T_13h31  == <<"1", "3", "h", "3", "1">>
T_9h30   == <<"9", "h", "3", "0">>
T_12h75  == <<"1", "2", "h", "7", "5">>
T_12h5   == <<"1", "2", "h", "5">>
T_112h00 == <<"1", "1", "2", "h", "0", "0">>
T_first  == <<"9", "h", "0", "0", "1", "2", "h", "0", "0">>
T_dated  == <<"1", "4", "/", "0", "6", " ", "1", "3", "h", "1", "5">>

ScrapedCards ==
    { Card(t, TRUE, TRUE, FALSE) :
        t \in {T_11h59, T_12h00, T_12h45, T_13h30, T_13h31, T_14h00, T_9h30,
               T_12h75, T_12h5, T_112h00, T_first, T_dated, T_plain} }
    \cup { Card(T_12h00, FALSE, TRUE, TRUE),     \* no download link
           Card(T_12h45, TRUE, FALSE, FALSE),    \* neither URL
           Card(T_13h31, TRUE, FALSE, TRUE),     \* only a video src
           [Card(T_13h30, TRUE, TRUE, TRUE) EXCEPT !.hasTitle = FALSE] }

InitFilter ==
    /\ RunIdle
    /\ upc = "filter" /\ cards \in SeqsUpTo(ScrapedCards, MaxScraped)
    /\ today = 0 /\ date_key = <<>>
    /\ filtered = <<>> /\ title = <<>> /\ once = <<>> /\ twice = <<>>

GetVideoLinks ==
    /\ upc = "filter"
    /\ \E raised \in BOOLEAN :
        /\ filtered' = get_video_links(cards, raised)
        /\ upc' = IF raised THEN "filter_raised" ELSE "filter_done"
    /\ UNCHANGED <<runVars, today, date_key, cards, title, once, twice>>

NextFilter == GetVideoLinks

SpecFilter == InitFilter /\ [][NextFilter]_vars

\* ---- the filename sanitization

TitleChars == {"a", "Z", "7", "_", "-", " ", "\t", "/", "é"}

InitSanitize ==
    /\ RunIdle
    /\ upc = "sanitize" /\ title \in SeqsUpTo(TitleChars, MaxTitleLen)
    /\ today = 0 /\ date_key = <<>> /\ cards = <<>>
    /\ filtered = <<>> /\ once = <<>> /\ twice = <<>>

SanitizeOnce ==
    /\ upc = "sanitize"
    /\ once' = safe_title_of(title)
    /\ upc' = "sanitized"
    /\ UNCHANGED <<runVars, today, date_key, cards, filtered, title, twice>>

SanitizeTwice ==
    /\ upc = "sanitized"
    /\ twice' = safe_title_of(once)
    /\ upc' = "sanitized_twice"
    /\ UNCHANGED <<runVars, today, date_key, cards, filtered, title, once>>

NextSanitize == SanitizeOnce \/ SanitizeTwice

SpecSanitize == InitSanitize /\ [][NextSanitize]_vars

---------------------------------------------------------------------------
(* Properties of the run loop. *)

Range(q) == { q[i] : i \in DOMAIN q }

Last(q) == q[Len(q)]

NothingOpen == \A r \in DOMAIN live : live[r] = 0

\* C1: a run in which login failed three times in a row has ended with
\* download_videos returning False, after exactly three calls of
\* setup_browser and of login, the third setup_browser with a visible
\* browser when the run started headless.
C1_ThreeLoginFailures ==
    (pc = "done" /\ logins = <<FALSE, FALSE, FALSE>>)
        => /\ result = "false"
           /\ Len(modes) = 3
           /\ (started_headless => modes[3] = FALSE)

\* C2: every setup_browser is followed by a close_browser before the next
\* setup_browser and before download_videos ends, at most one session is
\* open at any time, and none is open when the run has ended.
C2_SessionAlwaysClosed ==
    /\ (pc \in {"attempt", "done"} => closes = Len(modes))
    /\ closes <= Len(modes)
    /\ Len(modes) <= closes + 1
    /\ \A r \in DOMAIN live : live[r] <= 1
    /\ (pc = "done" => NothingOpen)

---------------------------------------------------------------------------
(* Properties of download_video. *)

Strategies(o) == [i \in DOMAIN o.tried |-> o.tried[i].strategy]

Chain == <<"direct", "browser", "click">>

IsPrefix(p, q) == Len(p) <= Len(q) /\ SubSeq(q, 1, Len(p)) = p

HasUrl(video) == video.directUrl \/ video.videoSrc

\* the strategies that apply to a record: the direct fetch needs a URL
Applicable(video) == IF HasUrl(video) THEN Chain ELSE Tail(Chain)

\* C3: the strategies are attempted in the order direct fetch, browser
\* download, DOM re-click: what was attempted is a prefix of that chain, a
\* strategy is attempted only after every earlier one failed, a failed
\* direct fetch is followed by the browser download, the re-click is
\* attempted only after the browser download failed, and the call returns
\* True exactly when the last strategy attempted succeeded.
C3_FallbackOrder ==
    \A n \in DOMAIN outcomes :
        LET o == outcomes[n] IN
        /\ IsPrefix(Strategies(o), Applicable(o.video))
        /\ \A i \in DOMAIN o.tried : i < Len(o.tried) => ~o.tried[i].ok
        /\ \A i \in DOMAIN o.tried :
              (o.tried[i].strategy = "direct" /\ ~o.tried[i].ok)
                  => (i < Len(o.tried) /\ o.tried[i + 1].strategy = "browser")
        /\ \A i \in DOMAIN o.tried :
              (o.tried[i].strategy = "browser" /\ ~o.tried[i].ok)
                  => (i < Len(o.tried) /\ o.tried[i + 1].strategy = "click")
        /\ \A i \in DOMAIN o.tried :
              o.tried[i].strategy = "click"
                  => (i > 1 /\ o.tried[i - 1].strategy = "browser"
                            /\ ~o.tried[i - 1].ok)
        /\ o.ret = (o.tried # <<>> /\ Last(o.tried).ok)

\* witness of C3: a call whose direct fetch and browser download failed and
\* whose re-click succeeded
C3_Witness ==
    \E n \in DOMAIN outcomes :
        /\ outcomes[n].ret
        /\ Strategies(outcomes[n]) = Chain
        /\ ~outcomes[n].tried[1].ok /\ ~outcomes[n].tried[2].ok

\* C4 as claimed: a call that returned False attempted all three strategies
\* and each failed.
C4_FalseOnlyAfterAllThree ==
    \A n \in DOMAIN outcomes :
        ~outcomes[n].ret
            => /\ Strategies(outcomes[n]) = Chain
               /\ \A i \in DOMAIN outcomes[n].tried : ~outcomes[n].tried[i].ok

\* C4 as amended: a call that returned False either failed to prepare the
\* destination (then no strategy was attempted), or attempted every
\* strategy that applies to the record and each failed.
C4_FalseOnlyAfterPrepOrAll ==
    \A n \in DOMAIN outcomes :
        LET o == outcomes[n] IN
        ~o.ret
            => \/ ~o.prepared /\ o.tried = <<>>
               \/ /\ o.prepared
                  /\ Strategies(o) = Applicable(o.video)
                  /\ \A i \in DOMAIN o.tried : ~o.tried[i].ok

\* witness of C4: one call failed in the preparation, another after the
\* whole chain
C4_Witness ==
    /\ \E n \in DOMAIN outcomes : ~outcomes[n].ret /\ ~outcomes[n].prepared
    /\ \E n \in DOMAIN outcomes :
          ~outcomes[n].ret /\ Strategies(outcomes[n]) = Chain

---------------------------------------------------------------------------
(* Properties of the run loop, continued. *)

\* C5: an attempt whose listing is empty is retried while retries remain,
\* and a run whose last allowed attempt still lists nothing has returned
\* True without a download; an empty listing never ends a run otherwise.
C5_EmptyListingIsSuccess ==
    (pc = "done" /\ failure = "empty")
        => /\ result = "true"
           /\ Len(modes) = max_retries + 1
           /\ outcomes = <<>>

Exceptions == {"setup_browser", "goto_login", "goto_videos"}

\* C6: download_videos ends by returning a boolean, never by raising, and
\* it returns False only when the third attempt failed by a login failure,
\* a filter failure or an exception.
C6_NoErrorIsFatal ==
    pc = "done"
        => /\ result \in {"true", "false"}
           /\ (result = "false"
                  => /\ Len(modes) = max_retries + 1
                     /\ failure \in {"login", "filters"} \cup Exceptions)

Succeeded(q) == Cardinality({ n \in DOMAIN q : q[n].ret })

\* C7 as claimed: every call of download_video that returned True has left
\* a complete file at its download path.
C7_FilePerSuccess ==
    \A n \in DOMAIN outcomes :
        outcomes[n].ret => outcomes[n].file = "complete"

\* C7 as amended: every call of download_video that returned True by the
\* direct fetch or the browser download has left a complete file at
\* <download-dir>/<DateKey>/<sanitized-title>.mp4, and the succeeded count
\* counts the calls that returned True (a re-click included).
C7_FilePerFetchedSuccess ==
    /\ \A n \in DOMAIN outcomes :
          LET o == outcomes[n] IN
          (o.ret /\ Last(o.tried).strategy \in {"direct", "browser"})
              => /\ o.file = "complete"
                 /\ o.path = <<date_str, safe_title_of(o.video.title)
                                           \o <<".", "m", "p", "4">> >>
                 /\ (n = Len(outcomes) => FileAt(files, o.path) = "complete")
    /\ successful_downloads = Succeeded(outcomes)

\* witness of C7: a success by the browser download after the direct fetch
\* left a partial file
C7_Witness ==
    \E n \in DOMAIN outcomes :
        /\ outcomes[n].ret
        /\ Last(outcomes[n].tried).strategy = "browser"
        /\ outcomes[n].file = "complete"
        /\ date_str = <<"2", "0", "2", "3", "1", "2", "1", "3">>

---------------------------------------------------------------------------
(* Properties of the pure helpers. *)

\* the date a key YYYYMMDD names, as an ordinal
KeyOrdinal(key) ==
    Ymd2Ord(IntOf(SubSeq(key, 1, 4)), IntOf(SubSeq(key, 5, 6)),
            IntOf(SubSeq(key, 7, 8)))

Wednesday == 2

\* C8: the date get_previous_wednesday computes is a Wednesday, is not
\* after today, is exactly 7 days before today when today is a Wednesday,
\* and otherwise is the most recent Wednesday before today, 1 to 6 days
\* earlier.
C8_PreviousWednesday ==
    upc = "date_done"
        => LET d == KeyOrdinal(date_key) IN
           /\ Len(date_key) = 8
           /\ Weekday(d) = Wednesday
           /\ d <= today
           /\ (Weekday(today) = Wednesday => d = today - 7)
           /\ (Weekday(today) # Wednesday
                  => /\ today - d \in 1..6
                     /\ \A e \in (d + 1)..today : Weekday(e) # Wednesday)

\* witness of C8: computed on a Wednesday, across the turn of the year
C8_Witness ==
    /\ upc = "date_done"
    /\ Weekday(today) = Wednesday
    /\ date_key = <<"2", "0", "2", "3", "1", "2", "2", "7">>

\* the pattern <hour>h<minute> with a k-digit hour stands at position i of t
OccursAt(t, i, k) ==
    /\ i + k + 2 <= Len(t)
    /\ \A j \in 0..(k - 1) : t[i + j] \in Digits
    /\ t[i + k] = "h"
    /\ t[i + k + 1] \in Digits /\ t[i + k + 2] \in Digits

Occurrences(t) == { i \in 1..Len(t) : OccursAt(t, i, 1) \/ OccursAt(t, i, 2) }

\* hour*100+minute of the first occurrence
FirstTime(t) ==
    LET i == CHOOSE a \in Occurrences(t) : \A b \in Occurrences(t) : a <= b
        k == IF OccursAt(t, i, 2) THEN 2 ELSE 1
    IN  IntOf(SubSeq(t, i, i + k - 1)) * 100
            + IntOf(SubSeq(t, i + k + 1, i + k + 2))

InWindow(video) ==
    Occurrences(video.title) # {}
        => (FirstTime(video.title) >= 1200 /\ FirstTime(video.title) <= 1330)

\* C9: of the scraped records, get_video_links keeps, in the scraped order,
\* exactly those whose title has no <hour>h<minute> pattern or whose first
\* such pattern gives hour*100+minute in 1200..1330: 12h00 and 13h30 are
\* kept, 11h59 and 13h31 are not.
C9_TimeWindow ==
    upc = "filter_done"
        => LET scraped == Extract(cards) IN
           /\ filtered = SelectSeq(scraped, InWindow)
           /\ \A i \in DOMAIN scraped :
                 /\ scraped[i].title \in {T_12h00, T_13h30, T_plain}
                       => scraped[i] \in Range(filtered)
                 /\ scraped[i].title \in {T_11h59, T_13h31}
                       => scraped[i] \notin Range(filtered)

\* witness of C9: 13h30 kept and 13h31 dropped from the same page
C9_Witness ==
    /\ upc = "filter_done"
    /\ Len(Extract(cards)) = 2
    /\ Len(filtered) = 1
    /\ filtered[1].title = T_13h30
    /\ Extract(cards)[1].title = T_13h31

\* C10 as claimed: sanitizing twice gives what sanitizing once gives, and
\* the sanitized name has only characters of [A-Za-z0-9_].
C10_IdempotentAscii ==
    upc = "sanitized_twice"
        => /\ twice = once
           /\ \A i \in DOMAIN once : once[i] \in AsciiWord

\* C10 as amended: sanitizing twice gives what sanitizing once gives, and
\* the sanitized name has only word characters (letters and digits of any
\* script, underscore): no whitespace, no hyphen, no punctuation.
C10_IdempotentWord ==
    upc = "sanitized_twice"
        => /\ twice = once
           /\ \A i \in DOMAIN once :
                 /\ IsWord(once[i])
                 /\ ~IsSpace(once[i])
                 /\ once[i] \notin {"-", "/"}

\* witness of C10: a title whose hyphen and whitespace became underscores
\* and whose non-ASCII letter stayed
C10_Witness ==
    /\ upc = "sanitized_twice"
    /\ title = <<"-", "é", " ">>
    /\ once = <<"_", "é">>

---------------------------------------------------------------------------
(* Properties of the teardown and of the retry policy. *)

\* close_browser has just run: no field changes between the finally clause
\* and the next setup_browser
AfterClose == closes > 0 /\ pc \in {"attempt", "done"}

HandleSet(name) == IsSet(Fields, name)

\* C11: close_browser closes page, context, browser and driver in that
\* order, and a close that raises does not keep the later ones from being
\* called: after close_browser ran, the close of every resource the
\* downloader holds has been invoked, in that order.
C11_GuardedTeardown ==
    AfterClose => close_log = SelectSeq(Resources, HandleSet)

\* the records download_video was called with, in call order
Downloaded == [n \in DOMAIN outcomes |-> outcomes[n].video]

\* an attempt has obtained a non-empty listing
Listed == listings # <<>> /\ Last(listings) > 0

\* C12: once an attempt has a non-empty listing, download_video is called
\* once per record, in list order, whatever the earlier calls returned;
\* no further attempt follows, and download_videos then returns True, also
\* when no download succeeded.
C12_EveryVideoOnceInOrder ==
    /\ IF Listed
       THEN /\ Downloaded = SubSeq(video_data_list, 1, idx - 1)
            /\ pc \in {"download", "finally", "done"}
            /\ pending # "continue"
       ELSE outcomes = <<>>
    /\ (Listed /\ pc \in {"finally", "done"}) => Downloaded = video_data_list
    /\ (Listed /\ pc = "done") => result = "true"

\* C13: whatever fails, download_videos makes at most three attempts with
\* a retry counter of at most 2, each attempt opens its session after the
\* previous one was closed, and the run ends with a return.
C13_BoundedRetry ==
    /\ Len(modes) <= max_retries + 1
    /\ retry_count <= max_retries
    /\ Len(modes) <= retry_count + 1
    /\ (pc = "attempt" => (NothingOpen /\ closes = Len(modes)))
    /\ (pc = "done" => result \in {"true", "false"})

\* C14: a run started headless launches its first and second attempt
\* headless and only its third, the one with retry counter 2, visible; a
\* run started visible launches every attempt visible; the attempt number
\* i is launched with retry counter i - 1, and self.headless never goes
\* from visible back to headless.
C14_HeadlessEscalation ==
    /\ [](/\ \A i \in DOMAIN modes :
                modes[i] = (started_headless /\ i <= max_retries)
          /\ headless = (started_headless /\ Len(modes) <= max_retries))
    /\ [][/\ (Len(modes') = Len(modes) + 1 => retry_count = Len(modes))
          /\ (~headless => ~headless')]_vars

\* witness of C14: a headless run that reached its third attempt
C14_Witness ==
    /\ started_headless
    /\ modes = <<TRUE, TRUE, FALSE>>
    /\ retry_count = max_retries
    /\ ~headless

===========================================================================
